---------------------------- MODULE Spec2Model ----------------------------
(***************************************************************************)
(* A model of the company knowledge-base chatbot:                          *)
(*   src/src/vector_store.py        VectorStore (the index store)          *)
(*   src/src/chatbot.py             CompanyKBChatbot (the orchestrator)    *)
(*   src/scripts/index_documents.py index_documents (the indexing command) *)
(*                                                                         *)
(* Text is modelled as a sequence of characters (one-character strings);   *)
(* a message the code builds from a literal and a variable part is the     *)
(* literal, kept as one element, followed by the characters of the         *)
(* variable part.  An identifier f"doc_{i}" is the pair <<"doc_", i>>.     *)
(* Python's 0-based indices are kept; only SubSeq shifts them by one.      *)
(***************************************************************************)
EXTENDS Integers, Sequences, FiniteSets, TLC

VARIABLES
    engine,                \* the vector engine build: what add does with an id that exists
    collection,            \* VectorStore.collection: id -> [document, metadata]
    lastStore,             \* the last VectorStore call of the process and its outcome
    run,                   \* the last index_documents run and its outcome
    chatbot,               \* "none", "ready" (constructed) or "failed" (constructor raised)
    checked,               \* outcome of the availability check of the last construction
    conversation_history,  \* CompanyKBChatbot.conversation_history
    lastChat,              \* the last chat call and its outcome
    persisted,             \* what the engine has written under persist_directory
    added                  \* add_documents calls on the collection since it was created

vars == <<engine, collection, lastStore, run, chatbot, checked,
          conversation_history, lastChat, persisted, added>>

storeVars == <<collection, lastStore, persisted, added>>
chatVars == <<chatbot, checked, conversation_history, lastChat>>

-----------------------------------------------------------------------------
(* Bounds of the model and constants of the program *)

\* vector_store.py:64
batch_size == 100

\* chatbot.py:140, the n_results chat asks for
ChatResults == 3

\* the largest chunk list handed to add_documents: two full batches and one more
MaxChunks == 201

\* the largest n_results of a search
MaxK == 4

\* add_documents calls on one collection after which the model adds no more
MaxAdds == 2

\* period after which the page_content of a generated chunk list repeats
Period == 3

\* number of conversation turns after which the model stops chatting
MaxTurns == 2

Min(a, b) == IF a <= b THEN a ELSE b

Range(s) == {s[i] : i \in 1..Len(s)}

\* s[i:end] of Python
Slice(s, i, end) == SubSeq(s, i + 1, end)

-----------------------------------------------------------------------------
(* Chunks: the documents the splitter hands to the store *)

Sources == << <<"data", "/", "documents", "/", "policy", ".", "txt">>,
              <<"data", "\\", "documents", "\\", "remote", ".", "txt">>,
              <<"policy", ".", "txt">> >>

\* chunk number i (0-based) of corpus c: the text repeats with period Period, the
\* source file changes every second chunk
Chunk(c, i) ==
    [page_content |-> <<"text", c, i % Period>>,
     metadata     |-> [source |-> Sources[(((i \div 2) + c) % Len(Sources)) + 1]]]

ChunkList(c, n) == [i \in 1..n |-> Chunk(c, i - 1)]

Corpora == {0, 1}

ChunkCounts == {0, 1, batch_size, batch_size + 1, 2 * batch_size, MaxChunks}

ChunkLists == {ChunkList(c, n) : c \in Corpora, n \in ChunkCounts}

-----------------------------------------------------------------------------
(* The vector engine (chromadb), as the store calls it *)

EmptyCollection == [id \in {} |-> 0]

CollectionCount(coll) == Cardinality(DOMAIN coll)

\* collection.add(documents, metadatas, ids).  The ids that exist already are
\* either refused (the call raises and adds nothing) or skipped, by the build.
CollectionAdd(coll, documents, metadatas, ids) ==
    LET n      == Len(ids)
        exists == {i \in 1..n : ids[i] \in DOMAIN coll}
        fresh  == {ids[i] : i \in (1..n) \ exists}
        idx(d) == CHOOSE i \in 1..n : ids[i] = d
        new    == [d \in fresh |-> [document |-> documents[idx(d)],
                                    metadata |-> metadatas[idx(d)]]]
    IN  IF exists # {} /\ engine = "refuse"
        THEN [raised |-> TRUE, coll |-> coll]
        ELSE [raised |-> FALSE, coll |-> new @@ coll]

\* The distance of a stored text to a query text, in quarters of the cosine
\* distance.  The embedding is the engine's; the model fixes one.
Distance(query, document) == (query[2] * 2 + document[2] * 3 + document[3]) % 4

Queries == {<<"query", 0>>, <<"query", 1>>}

\* the entry of ids nearest to the query: the smallest distance, then the
\* smallest id
Nearest(coll, query, ids) ==
    LET best == CHOOSE d \in 0..3 :
                    /\ \E id \in ids : Distance(query, coll[id].document) = d
                    /\ \A id \in ids : Distance(query, coll[id].document) >= d
        cand == {id \in ids : Distance(query, coll[id].document) = best}
    IN  CHOOSE id \in cand : \A other \in cand : id[2] <= other[2]

RECURSIVE TopN(_, _, _, _)
TopN(coll, query, n, ids) ==
    IF n = 0 \/ ids = {}
    THEN <<>>
    ELSE LET id == Nearest(coll, query, ids)
         IN  <<id>> \o TopN(coll, query, n - 1, ids \ {id})

\* collection.query(query_texts=[query], n_results=n): the engine refuses a
\* request for no result (n_results must be a positive integer); otherwise
\* one list per query text, nearest first
CollectionQuery(coll, query, n) ==
    IF n <= 0
    THEN [raised |-> TRUE]
    ELSE LET top == TopN(coll, query, n, DOMAIN coll)
         IN  [raised    |-> FALSE,
              ids       |-> <<top>>,
              documents |-> <<[i \in 1..Len(top) |-> coll[top[i]].document]>>,
              metadatas |-> <<[i \in 1..Len(top) |-> coll[top[i]].metadata]>>,
              distances |-> <<[i \in 1..Len(top) |->
                                 Distance(query, coll[top[i]].document)]>>]

-----------------------------------------------------------------------------
(* VectorStore *)

\* ids = [f"doc_{i}" for i in range(len(chunks))]
Ids(chunks) == [i \in 1..Len(chunks) |-> <<"doc_", i - 1>>]

\* end_idx = min(i + batch_size, len(documents))
EndIdx(i, n) == Min(i + batch_size, n)

\* a loop that steps one entry too far
NextStartSkipsOne(i) == i + batch_size + 1

\* range(0, len(documents), batch_size): the start that follows i
NextStart(i) == i + batch_size

\* the loop of add_documents from index i on: one collection.add per slice of
\* batch_size entries; log is the list of the slices <<i, end_idx>> handed over
RECURSIVE AddBatches(_, _, _, _, _, _)
AddBatches(coll, documents, metadatas, ids, i, log) ==
    IF i >= Len(documents)
    THEN [raised |-> FALSE, coll |-> coll, batches |-> log]
    ELSE LET end_idx == EndIdx(i, Len(documents))
             r == CollectionAdd(coll, Slice(documents, i, end_idx),
                                Slice(metadatas, i, end_idx), Slice(ids, i, end_idx))
         IN  IF r.raised
             THEN [raised |-> TRUE, coll |-> r.coll,
                   batches |-> Append(log, <<i, end_idx>>)]
             ELSE AddBatches(r.coll, documents, metadatas, ids, NextStart(i),
                             Append(log, <<i, end_idx>>))

\* VectorStore.add_documents(chunks) on a store holding coll
AddDocuments(coll, chunks) ==
    IF chunks = <<>>
    THEN [raised |-> FALSE, coll |-> coll, batches |-> <<>>]
    ELSE AddBatches(coll,
                    [i \in 1..Len(chunks) |-> chunks[i].page_content],
                    [i \in 1..Len(chunks) |-> chunks[i].metadata],
                    Ids(chunks), 0, <<>>)

\* VectorStore.search(query, n_results)
StoreSearch(coll, query, n_results) ==
    CollectionQuery(coll, query, Min(n_results, CollectionCount(coll)))

\* VectorStore.get_count()
GetCount(coll) == CollectionCount(coll)

\* a clear that leaves the collection as it is
StoreClearKeepsAll(coll) == coll

\* VectorStore.clear(): the collection is deleted and created again, empty
StoreClear(coll) == EmptyCollection

-----------------------------------------------------------------------------
(* DocumentProcessor, as index_documents uses it *)

\* the order of the atoms file names are made of, for sorted()
AtomOrder == <<".", "archive", "md", "notes", "pdf", "policy", "remote", "txt">>

Ord(a) == CHOOSE i \in 1..Len(AtomOrder) : AtomOrder[i] = a

\* s < t for two names, atom by atom
RECURSIVE NameLess(_, _)
NameLess(s, t) ==
    IF t = <<>> THEN FALSE
    ELSE IF s = <<>> THEN TRUE
    ELSE IF Head(s) # Head(t) THEN Ord(Head(s)) < Ord(Head(t))
    ELSE NameLess(Tail(s), Tail(t))

\* sorted(os.listdir(directory_path)) of a set of entries with distinct names
RECURSIVE SortedEntries(_)
SortedEntries(entries) ==
    IF entries = {} THEN <<>>
    ELSE LET first == CHOOSE e \in entries :
                          \A o \in entries \ {e} : NameLess(e.name, o.name)
         IN  <<first>> \o SortedEntries(entries \ {first})

\* os.path.splitext(filename)[1]: from the last "." on, "" without one
SplitExt(name) ==
    IF Len(name) >= 3 /\ name[Len(name) - 1] = "."
    THEN SubSeq(name, Len(name) - 1, Len(name))
    ELSE <<>>

supported_extensions == {<<".", "txt">>, <<".", "pdf">>}

\* loader.load() of one file: one document per page or section
LoadFile(directory_path, e) ==
    [p \in 1..Len(e.pages) |->
        [page_content |-> [file |-> Ord(e.name[1]), pieces |-> e.pages[p]],
         metadata     |-> [source |-> directory_path \o <<"/">> \o e.name]]]

\* a loop that gives up at the first file that fails to load
RECURSIVE LoadEntriesStopsAtFailure(_, _, _)
LoadEntriesStopsAtFailure(directory_path, listing, documents) ==
    IF listing = <<>> THEN documents
    ELSE LET e    == Head(listing)
             rest == Tail(listing)
         IN  IF e.isdir
             THEN LoadEntriesStopsAtFailure(directory_path, rest, documents)
             ELSE IF SplitExt(e.name) \notin {<<".", "txt">>, <<".", "pdf">>}
             THEN LoadEntriesStopsAtFailure(directory_path, rest, documents)
             ELSE IF ~e.loads
             THEN documents
             ELSE LoadEntriesStopsAtFailure(directory_path, rest,
                      documents \o [p \in 1..Len(e.pages) |->
                          [page_content |-> [file |-> Ord(e.name[1]), pieces |-> e.pages[p]],
                           metadata |-> [source |-> directory_path \o <<"/">> \o e.name]]])

\* the loop of load_documents over the sorted entries
RECURSIVE LoadEntries(_, _, _)
LoadEntries(directory_path, listing, documents) ==
    IF listing = <<>> THEN documents
    ELSE LET e    == Head(listing)
             rest == Tail(listing)
         IN  IF e.isdir
             THEN LoadEntries(directory_path, rest, documents)
             ELSE IF SplitExt(e.name) \notin supported_extensions
             THEN LoadEntries(directory_path, rest, documents)
             ELSE IF ~e.loads
             THEN LoadEntries(directory_path, rest, documents)
             ELSE LoadEntries(directory_path, rest,
                              documents \o LoadFile(directory_path, e))

\* DocumentProcessor.load_documents(directory_path)
LoadDocuments(directory_path, dir) ==
    IF ~dir.exists
    THEN [raised |-> TRUE, documents |-> <<>>]
    ELSE [raised |-> FALSE,
          documents |-> LoadEntries(directory_path, SortedEntries(dir.entries), <<>>)]

\* the chunks the splitter cuts one document into
SplitDocument(doc) ==
    [j \in 1..doc.page_content.pieces |->
        [page_content |-> <<"text", doc.page_content.file, j - 1>>,
         metadata     |-> doc.metadata]]

RECURSIVE SplitDocuments(_)
SplitDocuments(documents) ==
    IF documents = <<>> THEN <<>>
    ELSE SplitDocument(Head(documents)) \o SplitDocuments(Tail(documents))

\* DocumentProcessor.process_documents(documents)
ProcessDocuments(documents) ==
    IF documents = <<>> THEN <<>> ELSE SplitDocuments(documents)

DocumentsPath == <<"data", "/", "documents">>

Entry(name, isdir, loads, pages) ==
    [name |-> name, isdir |-> isdir, loads |-> loads, pages |-> pages]

\* the directories an indexing run is tried on
Directories ==
    { [exists |-> FALSE, entries |-> {}],
      [exists |-> TRUE, entries |-> {}],
      [exists |-> TRUE, entries |-> {Entry(<<"notes", ".", "md">>, FALSE, TRUE, <<1>>),
                                     Entry(<<"archive">>, TRUE, TRUE, <<>>)}],
      [exists |-> TRUE, entries |-> {Entry(<<"policy", ".", "txt">>, FALSE, TRUE, <<0>>)}],
      [exists |-> TRUE, entries |-> {Entry(<<"policy", ".", "txt">>, FALSE, TRUE, <<2>>)}],
      [exists |-> TRUE, entries |-> {Entry(<<"remote", ".", "txt">>, FALSE, TRUE, <<1>>),
                                     Entry(<<"policy", ".", "pdf">>, FALSE, TRUE, <<1, 2>>),
                                     Entry(<<"notes", ".", "txt">>, FALSE, FALSE, <<1>>),
                                     Entry(<<"archive">>, TRUE, TRUE, <<>>)}],
      [exists |-> TRUE, entries |-> {Entry(<<"remote", ".", "txt">>, FALSE, TRUE, <<1>>),
                                     Entry(<<"policy", ".", "txt">>, FALSE, TRUE, <<2>>),
                                     Entry(<<"notes", ".", "pdf">>, FALSE, TRUE, <<1, 0>>)}] }

-----------------------------------------------------------------------------
(* index_documents, the indexing command *)

LowerChar(c) ==
    CASE c = "Y" -> "y"
      [] c = "N" -> "n"
      [] c = "E" -> "e"
      [] c = "S" -> "s"
      [] OTHER   -> c

\* str.lower()
Lower(s) == [i \in 1..Len(s) |-> LowerChar(s[i])]

\* what the user may type at the prompt
Answers == {<<"y">>, <<"Y">>, <<"n">>, <<"N">>, <<>>, <<"y", "e", "s">>, <<" ", "y">>}

\* the prompt is shown: a non-empty index and no force flag
Prompts(existing_count, force_reindex) == existing_count > 0 /\ ~force_reindex

\* a command that does not look at the count before it clears
ClearsWithoutCount(existing_count, force_reindex, answer) ==
    force_reindex \/ Lower(answer) = <<"y">>

\* vector_store.clear() is called
Clears(existing_count, force_reindex, answer) ==
    existing_count > 0 /\ (force_reindex \/ Lower(answer) = <<"y">>)

\* the query of the search test of step 6
TestQuery == <<"query", 0>>

\* index_documents(documents_path, force_reindex) on a store holding coll, the
\* user typing answer if asked: what it returns ("True", "False", or "raised"
\* for an exception that leaves it) and the collection it leaves
IndexDocuments(coll, dir, force_reindex, answer) ==
    LET existing_count == GetCount(coll)
        cleared == Clears(existing_count, force_reindex, answer)
        kept    == IF cleared THEN StoreClear(coll) ELSE coll
        load    == LoadDocuments(DocumentsPath, dir)
        chunks  == ProcessDocuments(load.documents)
        add     == AddDocuments(kept, chunks)
        test    == StoreSearch(add.coll, TestQuery, 1)
        out(returned, c, ch) ==
            [returned |-> returned, coll |-> c, chunks |-> ch, cleared |-> cleared,
             load |-> load,
             prompted |-> Prompts(existing_count, force_reindex),
             existing_count |-> existing_count]
    IN  IF load.raised THEN out("False", kept, <<>>)
        ELSE IF load.documents = <<>> THEN out("False", kept, <<>>)
        ELSE IF chunks = <<>> THEN out("False", kept, <<>>)
        ELSE IF add.raised THEN out("raised", add.coll, chunks)
        ELSE IF test.raised THEN out("raised", add.coll, chunks)
        ELSE out("True", add.coll, chunks)

\* main(): sys.exit(0 if success else 1); an exception that leaves main ends
\* the interpreter with status 1
ExitCode(returned) == IF returned = "True" THEN 0 ELSE 1

-----------------------------------------------------------------------------
(* CompanyKBChatbot *)

\* how `ollama list` may end: return code 0, another return code, no answer
\* within 5 s, no such binary, or another error of the operating system
CheckOutcomes == {"ok", "nonzero", "timeout", "missing", "oserror"}

\* a check that takes a check that timed out for a backend that is there
CheckOllamaTimeoutPasses(outcome) ==
    CASE outcome = "ok"      -> "True"
      [] outcome = "nonzero" -> "False"
      [] outcome = "timeout" -> "True"
      [] outcome = "missing" -> "False"
      [] OTHER               -> "raised"

\* _check_ollama(): "True", "False", or "raised" for an exception it lets through
CheckOllama(outcome) ==
    CASE outcome = "ok"      -> "True"
      [] outcome = "nonzero" -> "False"
      [] outcome = "timeout" -> "False"
      [] outcome = "missing" -> "False"
      [] OTHER               -> "raised"

\* __init__ returns an orchestrator, or raises
Constructs(outcome) == CheckOllama(outcome) = "True"

Whitespace == {" ", "\n", "\t"}

RECURSIVE LStrip(_)
LStrip(s) == IF s # <<>> /\ Head(s) \in Whitespace THEN LStrip(Tail(s)) ELSE s

RECURSIVE RStrip(_)
RStrip(s) ==
    IF s # <<>> /\ s[Len(s)] \in Whitespace THEN RStrip(SubSeq(s, 1, Len(s) - 1)) ELSE s

\* str.strip()
Strip(s) == RStrip(LStrip(s))

\* str.replace(old, ''): the occurrences of old, left to right, are dropped
RECURSIVE Remove(_, _)
Remove(s, old) ==
    IF Len(s) < Len(old) THEN s
    ELSE IF SubSeq(s, 1, Len(old)) = old
    THEN Remove(SubSeq(s, Len(old) + 1, Len(s)), old)
    ELSE <<Head(s)>> \o Remove(Tail(s), old)

\* the part of s after its last sep: s.split(sep)[-1]
RECURSIVE LastSegment(_, _)
LastSegment(s, sep) ==
    IF \A i \in 1..Len(s) : s[i] # sep THEN s
    ELSE LastSegment(Tail(s), sep)

\* the source_name of format_context
SourceName(metadata) ==
    LET source == IF "source" \in DOMAIN metadata THEN metadata.source ELSE <<"Unknown">>
    IN  IF "/" \in Range(source) \/ "\\" \in Range(source)
        THEN LastSegment(LastSegment(source, "/"), "\\")
        ELSE source

\* a deduplication that keeps the last occurrence of each source, not the first
RECURSIVE UniqueKeepsLast(_)
UniqueKeepsLast(sources) ==
    IF sources = <<>> THEN <<>>
    ELSE IF Head(sources) \in Range(Tail(sources))
    THEN UniqueKeepsLast(Tail(sources))
    ELSE <<Head(sources)>> \o UniqueKeepsLast(Tail(sources))

\* list(dict.fromkeys(sources)): the first occurrence of each, in order
RECURSIVE Unique(_)
Unique(sources) ==
    IF sources = <<>> THEN <<>>
    ELSE LET first == Unique(SubSeq(sources, 1, Len(sources) - 1))
             last  == sources[Len(sources)]
         IN  IF last \in Range(first) THEN first ELSE Append(first, last)

\* "\n\n".join(context_parts)
RECURSIVE Join(_)
Join(parts) ==
    IF parts = <<>> THEN <<>>
    ELSE IF Len(parts) = 1 THEN parts[1]
    ELSE parts[1] \o <<"\n\n">> \o Join(Tail(parts))

\* format_context(search_results): <<context, unique_sources>>
FormatContext(search_results) ==
    LET docs  == search_results.documents[1]
        metas == search_results.metadatas[1]
        n     == Min(Len(docs), Len(metas))
        context_parts ==
            [i \in 1..n |-> <<"[Document ", i, " - ">> \o SourceName(metas[i])
                                \o <<"]:\n", docs[i]>>]
        sources == [i \in 1..n |-> SourceName(metas[i])]
    IN  <<Join(context_parts), Unique(sources)>>

NoInformationAnswer ==
    <<"I couldn't find any relevant information in the company documents.">>
TimedOutAnswer ==
    <<"Response timed out after 2 minutes. Please try a simpler question.">>
NoResponseAnswer == <<"No response generated. Please try again.">>

system_prompt ==
    "You are a helpful AI assistant for ACME Corporation. Answer questions based ONLY on the provided documents. Be professional and concise."

\* the prompt handed to `ollama run`
Prompt(user_question, context) ==
    <<system_prompt, "\n\nContext:\n">> \o context
        \o <<"\n\nQuestion: ", user_question, "\n\nAnswer:">>

Bye == <<"/", "b", "y", "e">>

\* how `ollama run` may end: it exits, it does not within 120 s, or starting
\* it raises another exception
Backends ==
    { [kind |-> "exit", returncode |-> 0, stderr |-> <<>>,
       stdout |-> <<"1", "5", " ", "d", "a", "y", "s", "\n">>],
      [kind |-> "exit", returncode |-> 0, stderr |-> <<>>,
       stdout |-> <<" ", "n", "o", " ", "/", "b", "y", "e", "\n">>],
      [kind |-> "exit", returncode |-> 0, stderr |-> <<>>, stdout |-> <<>>],
      [kind |-> "exit", returncode |-> 0, stderr |-> <<"w">>,
       stdout |-> <<"\n", "/", "b", "y", "e", " ">>],
      [kind |-> "exit", returncode |-> 1, stderr |-> <<"n", "o", " ", "m", "o", "d", "e", "l">>,
       stdout |-> <<>>],
      [kind |-> "exit", returncode |-> 2, stderr |-> <<>>, stdout |-> <<"1", "5">>],
      [kind |-> "timeout"],
      [kind |-> "exception", message |-> <<"E", "r", "r", "n", "o", " ", "1", "3">>] }

\* generate_response without its clause for subprocess.TimeoutExpired: the
\* timeout is caught as any other exception
GenerateResponseNoTimeoutClause(user_question, context, backend) ==
    CASE backend.kind = "timeout"   -> <<"Error: ", "Command timed out after 120 seconds">>
      [] backend.kind = "exception" -> <<"Error: ">> \o backend.message
      [] OTHER ->
            IF backend.returncode # 0
            THEN <<"Error generating response: ">> \o backend.stderr
            ELSE LET response == Strip(Remove(Strip(backend.stdout), Bye))
                 IN  IF response = <<>> THEN NoResponseAnswer ELSE response

\* generate_response(user_question, context), the process ending as backend
GenerateResponse(user_question, context, backend) ==
    CASE backend.kind = "timeout"   -> TimedOutAnswer
      [] backend.kind = "exception" -> <<"Error: ">> \o backend.message
      [] OTHER ->
            IF backend.returncode # 0
            THEN <<"Error generating response: ">> \o backend.stderr
            ELSE LET response == Strip(Remove(Strip(backend.stdout), Bye))
                 IN  IF response = <<>> THEN NoResponseAnswer ELSE response

\* a chat that starts the session log anew with every turn
ChatCallDropsOldTurns(coll, history, user_question, backend) ==
    LET search_results == StoreSearch(coll, user_question, ChatResults)
        formatted == FormatContext(search_results)
        answer    == GenerateResponse(user_question, formatted[1], backend)
    IN  IF search_results.raised
        THEN [raised |-> TRUE, invoked |-> FALSE, retrieved |-> 0, history |-> history]
        ELSE IF search_results.documents[1] = <<>>
        THEN [raised |-> FALSE, invoked |-> FALSE, retrieved |-> 0, history |-> history,
              answer |-> NoInformationAnswer, sources |-> <<>>]
        ELSE [raised |-> FALSE, invoked |-> TRUE,
              retrieved |-> Len(search_results.documents[1]),
              prompt |-> Prompt(user_question, formatted[1]),
              history |-> <<[question |-> user_question, answer |-> answer,
                             sources |-> formatted[2]]>>,
              answer |-> answer, sources |-> formatted[2]]

\* chat(user_question) on a store holding coll with history as the session log
ChatCall(coll, history, user_question, backend) ==
    LET search_results == StoreSearch(coll, user_question, ChatResults)
        formatted == FormatContext(search_results)
        answer    == GenerateResponse(user_question, formatted[1], backend)
    IN  IF search_results.raised
        THEN [raised |-> TRUE, invoked |-> FALSE, retrieved |-> 0, history |-> history]
        ELSE IF search_results.documents[1] = <<>>
        THEN [raised |-> FALSE, invoked |-> FALSE, retrieved |-> 0, history |-> history,
              answer |-> NoInformationAnswer, sources |-> <<>>]
        ELSE [raised |-> FALSE, invoked |-> TRUE,
              retrieved |-> Len(search_results.documents[1]),
              prompt |-> Prompt(user_question, formatted[1]),
              history |-> Append(history, [question |-> user_question,
                                           answer |-> answer,
                                           sources |-> formatted[2]]),
              answer |-> answer, sources |-> formatted[2]]

-----------------------------------------------------------------------------
(* The store and the indexing command: the actions *)

\* chromadb.Client(Settings(persist_directory=..., anonymized_telemetry=False)):
\* the settings do not ask for a persistent client
IsPersistent == FALSE

\* what the engine leaves under persist_directory once the collection is coll
Persist(coll) == IF IsPersistent THEN coll ELSE persisted

\* VectorStore.__init__ in a new process: get_or_create_collection on the
\* database of the new client
OpenCollection == IF IsPersistent THEN persisted ELSE EmptyCollection

NoCall == [op |-> "none"]

Add(chunks) ==
    LET r == AddDocuments(collection, chunks)
    IN  /\ added < MaxAdds
        /\ added' = added + 1
        /\ collection' = r.coll
        /\ persisted' = Persist(r.coll)
        /\ lastStore' = [op |-> "add", chunks |-> chunks, ids |-> Ids(chunks),
                         before_ids |-> DOMAIN collection, raised |-> r.raised,
                         batches |-> r.batches]
        /\ UNCHANGED <<engine, run, chatVars>>

Clear ==
    /\ collection' = StoreClear(collection)
    /\ persisted' = Persist(StoreClear(collection))
    /\ lastStore' = [op |-> "clear", count_before |-> GetCount(collection)]
    /\ added' = 0
    /\ UNCHANGED <<engine, run, chatVars>>

Search(query, n_results) ==
    /\ lastStore' = [op |-> "search", query |-> query, n_results |-> n_results,
                     count |-> GetCount(collection),
                     result |-> StoreSearch(collection, query, n_results)]
    /\ UNCHANGED <<engine, collection, persisted, added, run, chatVars>>

\* the process ends and a new one opens the store again
Restart ==
    /\ collection' = OpenCollection
    /\ lastStore' = [op |-> "open", count_before |-> GetCount(collection)]
    /\ added' = 0
    /\ chatbot' = "none"
    /\ checked' = "none"
    /\ conversation_history' = <<>>
    /\ lastChat' = NoCall
    /\ UNCHANGED <<engine, persisted, run>>

\* one run of the command; the prompt is answered only when it is shown
Index(dir, force_reindex, answer) ==
    LET r == IndexDocuments(collection, dir, force_reindex, answer)
    IN  /\ added < MaxAdds
        /\ r.prompted \/ answer = <<>>
        /\ added' = IF r.cleared THEN 1 ELSE added + 1
        /\ collection' = r.coll
        /\ persisted' = Persist(r.coll)
        /\ run' = [returned |-> r.returned, chunks |-> r.chunks,
                   cleared |-> r.cleared, prompted |-> r.prompted,
                   existing_count |-> r.existing_count,
                   before |-> collection, after |-> r.coll,
                   dir |-> dir, load |-> r.load,
                   exit_code |-> ExitCode(r.returned),
                   force_reindex |-> force_reindex,
                   answer |-> answer]
        /\ lastStore' = NoCall
        /\ UNCHANGED <<engine, chatVars>>

\* CompanyKBChatbot(): the availability check ends as outcome
Construct(outcome) ==
    /\ chatbot # "ready"
    /\ checked' = outcome
    /\ chatbot' = IF Constructs(outcome) THEN "ready" ELSE "failed"
    /\ conversation_history' = <<>>
    /\ lastChat' = NoCall
    /\ UNCHANGED <<engine, storeVars, run>>

\* chatbot.chat(user_question), the generation process ending as backend
Chat(user_question, backend) ==
    LET r == ChatCall(collection, conversation_history, user_question, backend)
    IN  /\ chatbot = "ready"
        /\ Len(conversation_history) < MaxTurns
        /\ conversation_history' = r.history
        /\ lastChat' = [r EXCEPT !.history = conversation_history] @@
                       [op |-> "chat", question |-> user_question, backend |-> backend,
                        count |-> GetCount(collection),
                        search_results |->
                            StoreSearch(collection, user_question, ChatResults)]
        /\ lastStore' = [op |-> "search", query |-> user_question,
                         n_results |-> ChatResults, count |-> GetCount(collection),
                         result |-> StoreSearch(collection, user_question, ChatResults)]
        /\ UNCHANGED <<engine, collection, persisted, added, run, chatbot, checked>>

\* chatbot.clear_history()
ClearHistory ==
    /\ chatbot = "ready"
    /\ conversation_history' = <<>>
    /\ lastChat' = [op |-> "clear_history"]
    /\ UNCHANGED <<engine, storeVars, run, chatbot, checked>>

Init ==
    /\ engine \in {"refuse", "skip"}
    /\ collection = EmptyCollection
    /\ persisted = EmptyCollection
    /\ lastStore = NoCall
    /\ run = [returned |-> "none"]
    /\ chatbot = "none"
    /\ checked = "none"
    /\ conversation_history = <<>>
    /\ lastChat = NoCall
    /\ added = 0

\* the store, called directly
Next ==
    \/ \E chunks \in ChunkLists : Add(chunks)
    \/ Clear
    \/ \E query \in Queries, n_results \in 1..MaxK : Search(query, n_results)
    \/ Restart

Spec == Init /\ [][Next]_vars

\* runs of the indexing command on the store of one process
IndexNext ==
    \/ \E dir \in Directories, force_reindex \in BOOLEAN, answer \in Answers :
           Index(dir, force_reindex, answer)
    \/ Clear
    \/ Restart

IndexSpec == Init /\ [][IndexNext]_vars

\* the chunk lists added to the store an orchestrator reads
ChatChunkLists == {ChunkList(0, n) : n \in {0, 1, ChatResults + 2}}

\* one orchestrator and the store it reads
ChatNext ==
    \/ \E outcome \in CheckOutcomes : Construct(outcome)
    \/ \E user_question \in Queries, backend \in Backends : Chat(user_question, backend)
    \/ ClearHistory
    \/ \E chunks \in ChatChunkLists : Add(chunks)

ChatSpec == Init /\ [][ChatNext]_vars

-----------------------------------------------------------------------------
(* The store: claims *)

\* the entry the store keeps for a chunk
EntryOf(chunk) == [document |-> chunk.page_content, metadata |-> chunk.metadata]

\* the batches cover 0..n without gap or overlap, batch_size entries at most each
Covers(batches, n) ==
    IF n = 0 THEN batches = <<>>
    ELSE /\ batches # <<>>
         /\ batches[1][1] = 0
         /\ batches[Len(batches)][2] = n
         /\ \A j \in 1..Len(batches) :
                /\ batches[j][1] < batches[j][2]
                /\ batches[j][2] - batches[j][1] <= batch_size
         /\ \A j \in 1..(Len(batches) - 1) : batches[j + 1][1] = batches[j][2]

\* C1: an add_documents call gives every entry an id that no entry of the store
\* has yet and no other entry of the call has: no two insertions use one id.
C1_IdsNeverReused ==
    lastStore.op = "add" =>
        /\ \A i \in 1..Len(lastStore.ids) : lastStore.ids[i] \notin lastStore.before_ids
        /\ \A i, j \in 1..Len(lastStore.ids) :
               lastStore.ids[i] = lastStore.ids[j] => i = j

\* C6: search on a store without entries returns an empty result and does not
\* raise, whatever n_results >= 1 is asked for.
C6_SearchEmptyStoreReturnsEmpty ==
    (lastStore.op = "search" /\ lastStore.count = 0) =>
        /\ ~lastStore.result.raised
        /\ lastStore.result.documents[1] = <<>>

\* C7: search returns min(n_results, count()) entries, nearest first, in every
\* state of the store.
C7_SearchLengthAndOrder ==
    lastStore.op = "search" =>
        /\ ~lastStore.result.raised
        /\ Len(lastStore.result.documents[1]) = Min(lastStore.n_results, lastStore.count)
        /\ \A i \in 1..(Len(lastStore.result.distances[1]) - 1) :
               lastStore.result.distances[1][i] <= lastStore.result.distances[1][i + 1]

\* C8: one add_documents call on an empty store leaves exactly the chunks it
\* was given, each once, handed over in consecutive batches of at most
\* batch_size; clear leaves an empty store, on which the next add works so.
C8_AddOnEmptyKeepsAll ==
    /\ (lastStore.op = "add" /\ lastStore.before_ids = {}) =>
           LET chunks == lastStore.chunks
           IN  /\ ~lastStore.raised
               /\ GetCount(collection) = Len(chunks)
               /\ \A c \in Range(chunks) :
                      Cardinality({id \in DOMAIN collection : collection[id] = EntryOf(c)})
                          = Cardinality({i \in 1..Len(chunks) : chunks[i] = c})
               /\ Covers(lastStore.batches, Len(chunks))
    /\ lastStore.op = "clear" => GetCount(collection) = 0

\* C8, its case: a list of more than two full batches was added to an empty
\* store, in three batches
C8_Witness ==
    /\ lastStore.op = "add"
    /\ lastStore.before_ids = {}
    /\ Len(lastStore.chunks) > 2 * batch_size
    /\ Len(lastStore.batches) = 3
    /\ ~lastStore.raised
    /\ GetCount(collection) = Len(lastStore.chunks)

\* C9: a store opened again after the process ended reports the count it had.
C9_CountSurvivesRestart ==
    lastStore.op = "open" => GetCount(collection) = lastStore.count_before

-----------------------------------------------------------------------------
(* The indexing command: claims *)

\* every entry the store held before the run is still there, unchanged
RunKeptEntries ==
    \A id \in DOMAIN run.before :
        id \in DOMAIN run.after /\ run.after[id] = run.before[id]

\* C2, as stated: clear is called only on a non-empty store with the force flag
\* or the answer 'y'; in every other run it is not called and the entries stay.
C2_ClearOnlyOnForceOrLowercaseY ==
    run.returned # "none" =>
        /\ run.cleared <=> (run.existing_count > 0 /\
                               (run.force_reindex \/ (run.prompted /\ run.answer = <<"y">>)))
        /\ ~run.cleared => RunKeptEntries

\* C2, amended: clear is called only on a non-empty store with the force flag
\* or the answer 'y' in either case ('y' or 'Y'); in every other run it is not
\* called and the entries stay.
C2_ClearOnlyOnForceOrYes ==
    run.returned # "none" =>
        /\ run.cleared <=> (run.existing_count > 0 /\
                               (run.force_reindex \/
                                   (run.prompted /\ run.answer \in {<<"y">>, <<"Y">>})))
        /\ ~run.cleared => RunKeptEntries

\* C2, its case: the user answered 'Y' on a non-empty store and it was cleared
C2_Witness ==
    /\ run.returned # "none"
    /\ run.existing_count > 0
    /\ run.prompted
    /\ run.answer = <<"Y">>
    /\ run.cleared

-----------------------------------------------------------------------------
(* The orchestrator: claims *)

IsText(s) == \A i \in 1..Len(s) : s[i] \in STRING

\* the generation process exited with a return code other than 0
ExitedNonZero(backend) == backend.kind = "exit" /\ backend.returncode # 0

\* C3: whenever chat returns a failure message (nothing relevant found, the
\* generation process exited non-zero, timed out, or printed nothing), the
\* sources it returns are empty.
C3_FailuresCarryNoSources ==
    (/\ lastChat.op = "chat"
     /\ ~lastChat.raised
     /\ \/ lastChat.answer \in {NoInformationAnswer, TimedOutAnswer, NoResponseAnswer}
        \/ (lastChat.invoked /\ ExitedNonZero(lastChat.backend)))
        => lastChat.sources = <<>>

\* C4: with a non-empty retrieval chat returns {answer, sources}, the answer a
\* string, however the generation process ends; after a timeout the answer is
\* the timed-out message, which the answers after a non-zero exit and after an
\* empty output are not.
C4_BackendNeverCrashesChat ==
    (lastChat.op = "chat" /\ lastChat.retrieved > 0) =>
        /\ ~lastChat.raised
        /\ {"answer", "sources"} \subseteq DOMAIN lastChat
        /\ IsText(lastChat.answer)
        /\ lastChat.backend.kind = "timeout" => lastChat.answer = TimedOutAnswer
        /\ (ExitedNonZero(lastChat.backend) \/ lastChat.answer = NoResponseAnswer) =>
               lastChat.answer # TimedOutAnswer

\* C4, its case: chunks were retrieved and the generation process timed out
C4_Witness ==
    /\ lastChat.op = "chat"
    /\ lastChat.retrieved > 0
    /\ lastChat.backend.kind = "timeout"
    /\ ~lastChat.raised
    /\ lastChat.answer = TimedOutAnswer

\* C5: chat on a store without entries (so that nothing is retrieved) returns
\* the no-information answer with no sources and does not start the generation
\* process.
C5_EmptyStoreShortCircuits ==
    (lastChat.op = "chat" /\ lastChat.count = 0) =>
        /\ ~lastChat.raised
        /\ ~lastChat.invoked
        /\ lastChat.answer = NoInformationAnswer
        /\ lastChat.sources = <<>>

\* C10: an orchestrator exists only after an availability check that succeeded,
\* a check that did not succeed makes the construction fail, and so chat starts
\* the generation process only after a successful check.
C10_NoOrchestratorWithoutBackend ==
    /\ chatbot = "ready" => checked = "ok"
    /\ checked \in CheckOutcomes \ {"ok"} => chatbot = "failed"
    /\ (lastChat.op = "chat" /\ lastChat.invoked) => (chatbot = "ready" /\ checked = "ok")

\* C10, its case: the check passed, the orchestrator was constructed, and chat
\* started the generation process
C10_Witness ==
    /\ lastChat.op = "chat"
    /\ lastChat.invoked
    /\ checked = "ok"
    /\ chatbot = "ready"

-----------------------------------------------------------------------------
(* format_context: claims *)

\* the final path segment of a source: what follows its last "/" or "\"
ShortName(source) ==
    LET seps == {i \in 1..Len(source) : source[i] \in {"/", "\\"}}
        last == IF seps = {} THEN 0 ELSE CHOOSE i \in seps : \A j \in seps : j <= i
    IN  SubSeq(source, last + 1, Len(source))

\* the short source names of the chunks the last chat retrieved, in result order
RetrievedNames ==
    [i \in 1..Len(lastChat.search_results.metadatas[1]) |->
        ShortName(lastChat.search_results.metadatas[1][i].source)]

\* the place of the first occurrence of name in names
FirstAt(names, name) ==
    CHOOSE i \in 1..Len(names) : names[i] = name /\ \A j \in 1..(i - 1) : names[j] # name

\* C11: the sources format_context returns are the short names (final path
\* segment, for "/" and for "\") of the retrieved chunks, each once, in the
\* order in which they first occur in the result.
C11_SourcesUniqueInFirstOccurrenceOrder ==
    (lastChat.op = "chat" /\ lastChat.invoked) =>
        LET names   == RetrievedNames
            sources == lastChat.sources
        IN  /\ Range(sources) = Range(names)
            /\ \A i, j \in 1..Len(sources) : sources[i] = sources[j] => i = j
            /\ \A i, j \in 1..Len(sources) :
                   i < j => FirstAt(names, sources[i]) < FirstAt(names, sources[j])

\* C11, its case: the retrieved chunks come from a.txt, b.txt, a.txt (one of
\* them under a path with "\") and the sources are a.txt, b.txt
C11_Witness ==
    /\ lastChat.op = "chat"
    /\ lastChat.invoked
    /\ Len(RetrievedNames) = 3
    /\ RetrievedNames[1] = RetrievedNames[3]
    /\ RetrievedNames[1] # RetrievedNames[2]
    /\ lastChat.sources = <<RetrievedNames[1], RetrievedNames[2]>>
    /\ \E i \in 1..3 : "\\" \in Range(lastChat.search_results.metadatas[1][i].source)

-----------------------------------------------------------------------------
(* The indexing command and load_documents: further claims *)

\* every chunk of the run is in the store the run leaves, under an id of its own
RunAddedChunks ==
    \E place \in [1..Len(run.chunks) -> DOMAIN run.after] :
        /\ \A i, j \in 1..Len(run.chunks) : place[i] = place[j] => i = j
        /\ \A i \in 1..Len(run.chunks) : run.after[place[i]] = EntryOf(run.chunks[i])

\* C12: the command exits with 1 when the directory is missing, no document
\* was loaded or no chunk was produced, and with 0 otherwise: exactly when at
\* least one chunk was produced and added to the store.
C12_ExitCode ==
    run.returned # "none" =>
        LET nothing == \/ ~run.dir.exists
                       \/ run.load.documents = <<>>
                       \/ ProcessDocuments(run.load.documents) = <<>>
        IN  /\ nothing => run.exit_code = 1
            /\ ~nothing => run.exit_code = 0
            /\ run.exit_code = 0 <=> (run.chunks # <<>> /\ RunAddedChunks)

\* the file name of a loaded document: its source without the directory
FileOf(doc) ==
    SubSeq(doc.metadata.source, Len(DocumentsPath) + 2, Len(doc.metadata.source))

\* a file load_documents is to return the documents of
Loadable(e) ==
    /\ ~e.isdir
    /\ e.loads
    /\ Len(e.name) >= 3
    /\ e.name[Len(e.name) - 1] = "."
    /\ e.name[Len(e.name)] \in {"txt", "pdf"}

\* C14: load_documents raises only for a directory that does not exist; of an
\* existing one it returns the documents of every supported file that loads,
\* and of no other entry, in sorted order of the file names, whichever files
\* fail to load.
C14_LoadSkipsAndContinues ==
    run.returned # "none" =>
        LET docs == run.load.documents
        IN  /\ run.load.raised <=> ~run.dir.exists
            /\ run.dir.exists =>
                   /\ \A e \in run.dir.entries :
                          Cardinality({i \in 1..Len(docs) : FileOf(docs[i]) = e.name})
                              = IF Loadable(e) THEN Len(e.pages) ELSE 0
                   /\ \A i \in 1..Len(docs) :
                          \E e \in run.dir.entries : FileOf(docs[i]) = e.name
                   /\ \A i, j \in 1..Len(docs) :
                          i < j => ~NameLess(FileOf(docs[j]), FileOf(docs[i]))

\* C14, its case: a supported file failed to load, a subdirectory was passed
\* over, and the documents of two later files were returned
C14_Witness ==
    /\ run.returned # "none"
    /\ run.dir.exists
    /\ \E e \in run.dir.entries : e.isdir
    /\ \E e \in run.dir.entries :
           /\ ~e.isdir /\ ~e.loads /\ SplitExt(e.name) \in supported_extensions
           /\ \E i \in 1..Len(run.load.documents) :
                  NameLess(e.name, FileOf(run.load.documents[i]))
    /\ Cardinality({FileOf(run.load.documents[i]) : i \in 1..Len(run.load.documents)}) = 2

\* C15, as stated: a run that returns False leaves the entries of the store as
\* they were, also with the force flag or a confirmed clear.
C15_FailedRunLeavesIndex ==
    run.returned = "False" => run.after = run.before

\* C15, amended: a run that returns False leaves the entries of the store as
\* they were unless it cleared the store (a non-empty store and the force flag
\* or a confirming answer), and then it leaves the store empty.
C15_FailedRunLeavesIndexUnlessCleared ==
    run.returned = "False" =>
        IF /\ GetCount(run.before) > 0
           /\ run.force_reindex \/ run.answer \in {<<"y">>, <<"Y">>}
        THEN GetCount(run.after) = 0
        ELSE run.after = run.before

\* C15, its case: a forced run on a non-empty store failed and left it empty
C15_Witness ==
    /\ run.returned = "False"
    /\ run.force_reindex
    /\ run.cleared
    /\ GetCount(run.before) > 0
    /\ GetCount(run.after) = 0

-----------------------------------------------------------------------------
(* The session log: claims *)

\* a step that is a chat call: the orchestrator exists, no chunks are added,
\* and the call on record afterwards is a chat
ChatStep ==
    /\ chatbot = "ready"
    /\ added' = added
    /\ lastChat'.op = "chat"

\* a step that is a clear_history call
ClearHistoryStep ==
    /\ chatbot = "ready"
    /\ added' = added
    /\ lastChat'.op = "clear_history"

\* C13: a chat that retrieved chunks appends one turn to the session log, the
\* question asked with the answer and the sources it returns; any other chat
\* leaves the log as it is, clear_history empties it, and nothing else changes
\* a turn, the order of the turns or their number.
C13_SessionLogAppendOnly ==
    [][ IF ChatStep
        THEN IF lastChat'.retrieved > 0
             THEN conversation_history' =
                      Append(conversation_history,
                             [question |-> lastChat'.question,
                              answer   |-> lastChat'.answer,
                              sources  |-> lastChat'.sources])
             ELSE conversation_history' = conversation_history
        ELSE IF ClearHistoryStep
        THEN conversation_history' = <<>>
        ELSE conversation_history' = conversation_history ]_vars

\* C13, its case: a second turn was appended behind the first
C13_Witness ==
    /\ lastChat.op = "chat"
    /\ lastChat.retrieved > 0
    /\ Len(lastChat.history) = 1
    /\ Len(conversation_history) = 2
    /\ conversation_history[1] = lastChat.history[1]
    /\ conversation_history[2].answer = lastChat.answer

=============================================================================
